---- MODULE Spec2Model ----
(***************************************************************************)
(* Model of kubernetes-event-exporter.                                     *)
(*                                                                         *)
(* Spec, AgeSpec, FairSpec: the event watcher (pkg/kube/watcher.go): the   *)
(* informer callbacks OnAdd / OnUpdate / OnDelete, the age filter          *)
(* isEventDiscarded, the enrichment and handler call of onEvent, the       *)
(* watch error handler, and Start / Stop.                                  *)
(* RouteSpec: the router (pkg/exporter/router.go) over a route tree and    *)
(* the receiver registry behind it.                                        *)
(* CacheSpec: several tasks calling GetObjectMetadata on one provider.     *)
(* SinkSpec: Teams.Send (pkg/sinks/teams.go) and Loki.Send / Loki.Close    *)
(* (pkg/sinks/loki.go).                                                    *)
(*                                                                         *)
(* Time is an integer.  The Go zero time is ZeroTime; every real instant   *)
(* of the model lies Epoch or more after it, as wall-clock time does.      *)
(***************************************************************************)
EXTENDS Integers, Sequences, FiniteSets, TLC

\* ------------------------------------------------------------------ bounds
MaxTime == 2            \* event timestamps range over Epoch+1 .. Epoch+MaxTime
MaxNotifs == 2          \* add/update notifications delivered by the stream
MaxWatchErrors == 1     \* watch errors reported by the reflector
MaxAge == 1             \* configured maximum ages range over 0 .. MaxAge
Epoch == 10             \* distance between the zero time and the first instant
CacheSize == 1          \* capacity of the object metadata cache

\* ------------------------------------------------------------------ values
ZeroTime == 0
Times == {ZeroTime} \cup ((Epoch + 1) .. (Epoch + MaxTime))
Clock == (Epoch + 1) .. (Epoch + MaxTime + 1)
\* values the tests give startUpTime: before every event, after every event
StartUpTimes == {ZeroTime, Epoch + MaxTime}
NoSeries == <<>>         \* Event.Series is nil
NoRef == "zero"          \* the zero ObjectReference
NoTime == -1             \* no value

Objects == {"Pod/default/web-1", "Pod/default/web-2"}
ManagedFieldsValues == {<<>>, <<"kubectl">>}

\* corev1.Event, reduced to the fields onEvent reads
EventRecord(s, l, t, o, m) ==
    [Series |-> s, LastTimestamp |-> l, EventTime |-> t,
     InvolvedObject |-> o, ManagedFields |-> m]

\* events that differ in their timestamps: the inputs of the age filter
AgeEvents ==
    { EventRecord(s, l, t, "Pod/default/web-1", <<"kubectl">>) :
        s \in {NoSeries} \cup {<<x>> : x \in Times}, l \in Times, t \in Times }

\* events that differ in the object they involve and their managed fields:
\* the inputs of the enrichment.  Their timestamp is the latest one, so the
\* clock and the configured maximum age decide whether they are discarded.
Events ==
    { EventRecord(NoSeries, Epoch + MaxTime, ZeroTime, o, m) :
        o \in Objects, m \in ManagedFieldsValues }

\* ObjectMetadata as the cache returns it
LiveMetadata ==
    { [Labels |-> <<l>>, Annotations |-> <<"team=a">>,
       OwnerReferences |-> <<"ReplicaSet/web">>, Deleted |-> FALSE] :
        l \in {"app=web", "app=api"} }
DeletedMetadata ==
    [Labels |-> <<>>, Annotations |-> <<>>, OwnerReferences |-> <<>>, Deleted |-> TRUE]

\* what one read of the control plane answers
BackendResults ==
    { [err |-> "nil", md |-> m] : m \in LiveMetadata }
    \cup { [err |-> "NotFound", md |-> DeletedMetadata],
           [err |-> "Other", md |-> DeletedMetadata] }

\* EnhancedEvent.InvolvedObject before enrichment (Go zero value)
ZeroInvolvedObject ==
    [ObjectReference |-> NoRef, Labels |-> <<>>, Annotations |-> <<>>,
     OwnerReferences |-> <<>>, Deleted |-> FALSE]

\* no event, no EnhancedEvent: the callback is not running
NoEvent == EventRecord(NoSeries, ZeroTime, ZeroTime, NoRef, <<>>)
NoEnhancedEvent == [Event |-> NoEvent, InvolvedObject |-> ZeroInvolvedObject]

\* no GetObjectMetadata call yet
NoLookup == [reference |-> NoRef, err |-> "nil", involved |-> ZeroInvolvedObject]

VARIABLES
    omitLookup,          \* EventWatcher.omitLookup
    maxEventAgeSeconds,  \* EventWatcher.maxEventAgeSeconds
    startUpTime,         \* package variable startUpTime
    metricsStore,        \* the counters of metrics.Store
    warnings,            \* number of "Event discarded ..." warnings logged
    objectMetadataCache, \* LRU content, least recently used first
    stopper,             \* EventWatcher.stopper: "open" or "closed"
    wg,                  \* EventWatcher.wg counter
    started,             \* Start() has been called (and has returned)
    run,                 \* position of the goroutine Start() spawns
    stop,                \* position of the Stop() call
    stopAfterStart,      \* Stop() was called after Start() had returned
    pc,                  \* position of the callback goroutine in onEvent
    callback,            \* the callback that entered onEvent, until line 113
    event,               \* the event the callback was handed
    timestamp,           \* local of isEventDiscarded, kept until line 113
    eventAge,            \* local of isEventDiscarded, kept until line 113
    ev,                  \* the EnhancedEvent onEvent builds
    err,                 \* local of onEvent: what GetObjectMetadata returned
    received,            \* add/update notifications delivered so far
    fnLog,               \* notifications the handler was invoked for, in order
    fnRunning,           \* handler invocations that have not returned
    lastLookup           \* history: the previous GetObjectMetadata call

config == <<omitLookup, maxEventAgeSeconds>>
lifecycle == <<stopper, wg, started, run, stop, stopAfterStart>>
locals == <<callback, event, timestamp, eventAge, ev, err>>
handler == <<fnLog, fnRunning>>
history == <<lastLookup>>

\* the router and the receiver registry behind the handler
VARIABLES
    routeCfg,            \* Router.cfg.Route: the root of the route tree
    rpc,                 \* position of Router.ProcessEvent
    routed,              \* the rules the event being routed satisfies
    todo,                \* SendEvent calls the traversal has still to make
    pendingSends,        \* destinations handed an event they have not sent yet
    sendOk,              \* destinations whose Send returned nil
    sendFailed           \* destinations whose Send returned an error

\* tasks that call GetObjectMetadata on one shared provider
VARIABLES
    tasks,               \* per task: position in the call, key, read joined, result
    inflight,            \* per key: the backend reads in flight
    calls                \* GetObjectMetadata calls made so far

\* the Teams and Loki sinks
VARIABLES
    teamsIn,             \* what the steps of the last Teams.Send met
    teamsRet,            \* what the last Teams.Send returned
    idleConns,           \* per transport: idle connections Loki.Send left
    lokiRet,             \* what the last Loki.Send returned
    lokiClosed,          \* Loki.Close has returned
    sends                \* Send calls made so far

vars == <<omitLookup, maxEventAgeSeconds, startUpTime, metricsStore, warnings,
          objectMetadataCache, stopper, wg, started, run, stop, stopAfterStart,
          pc, callback, event, timestamp, eventAge, ev, err, received, fnLog,
          fnRunning, lastLookup, routeCfg, rpc, routed, todo, pendingSends, sendOk, sendFailed,
          tasks, inflight, calls, teamsIn, teamsRet, idleConns, lokiRet,
          lokiClosed, sends>>

routing == <<routeCfg, rpc, routed, todo, pendingSends, sendOk, sendFailed>>
lookups == <<tasks, inflight, calls>>
sinks == <<teamsIn, teamsRet, idleConns, lokiRet, lokiClosed, sends>>
others == <<routing, lookups, sinks>>


\* ------------------------------------------------------------------ route tree
MaxRoutes == 2          \* child routes of the root of the route tree

\* rules an event can satisfy, and the rule lists a route node carries
WarningRule == "type=Warning"
SystemRule == "namespace=kube-system"
Rules == {WarningRule, SystemRule}
DropLists == {{}, {SystemRule}}
MatchLists == {{}, {WarningRule}}

\* a route node; its one destination is named after its path in the tree
Route(drop, match, receiver, routes) ==
    [drop |-> drop, match |-> match, receiver |-> receiver, routes |-> routes]

LeafRoutes(path) ==
    { Route(d, m, path, <<>>) : d \in DropLists, m \in MatchLists }

\* the first child route can have a child of its own
ChildRoutes(i) ==
    IF i = 1
    THEN { Route(d, m, <<i>>, g) :
             d \in DropLists, m \in MatchLists,
             g \in {<<>>} \cup { <<l>> : l \in LeafRoutes(<<i, 1>>) } }
    ELSE LeafRoutes(<<i>>)

RECURSIVE ChildLists(_)
ChildLists(n) ==
    IF n = 0 THEN {<<>>}
    ELSE { Append(cs, c) : cs \in ChildLists(n - 1), c \in ChildRoutes(n) }

RouteTrees ==
    { Route(d, m, <<>>, cs) :
        d \in DropLists, m \in MatchLists,
        cs \in UNION { ChildLists(n) : n \in 0 .. MaxRoutes } }

\* a route without rules, destinations or children
NoRoute == Route({}, {}, <<>>, <<>>)

\* a drop rule of the node matches the event
Dropped(route, e) == \E d \in route.drop : d \in e

\* every match rule of the node matches the event (none: matches always)
Matched(route, e) == \A m \in route.match : m \in e

RECURSIVE RouteProcessEvent(_, _)
RECURSIVE RouteChildren(_, _, _)
\* variant: the drop rules only stop the node's own destinations
RouteProcessEventDropLate(route, e) ==
    IF Matched(route, e)
    THEN (IF Dropped(route, e) THEN <<>> ELSE <<route.receiver>>)
         \o RouteChildren(route.routes, 1, e)
    ELSE <<>>

\* Route.ProcessEvent: the SendEvent calls of the depth-first walk, in order.
\* Drop rules first; then the match rules; on a match the node's destination,
\* then every child route in order.
RouteProcessEvent(route, e) ==
    IF Dropped(route, e) THEN <<>>
    ELSE IF Matched(route, e)
         THEN <<route.receiver>> \o RouteChildren(route.routes, 1, e)
         ELSE <<>>
RouteChildren(routes, i, e) ==
    IF i > Len(routes) THEN <<>>
    ELSE RouteProcessEvent(routes[i], e) \o RouteChildren(routes, i + 1, e)

\* the router before its first event
RouterIdle ==
    /\ routeCfg = NoRoute
    /\ rpc = "ready"
    /\ routed = {}
    /\ todo = <<>>
    /\ pendingSends = {}
    /\ sendOk = {}
    /\ sendFailed = {}

\* ------------------------------------------------------------------ shared provider
MaxTasks == 2           \* tasks calling GetObjectMetadata on one provider
MaxCalls == 3           \* GetObjectMetadata calls made by the tasks

Tasks == 1 .. MaxTasks

\* a task that is not in a call has no result
NoResult == [err |-> "none", md |-> DeletedMetadata]
IdleTask == [pc |-> "idle", key |-> NoRef, read |-> 0, result |-> NoResult]

\* no task is calling the provider
LookupsIdle ==
    /\ tasks = [t \in Tasks |-> IdleTask]
    /\ inflight = [k \in Objects |-> {}]
    /\ calls = 0

\* ------------------------------------------------------------------ sinks
MaxSends == 2           \* Send calls made on the sinks

\* what a step of Send can meet
StepResults == {"nil", "error"}
\* HTTP status codes a webhook answers with
TeamsStatuses == {"200", "500"}
\* HTTP status codes Loki answers with
LokiStatuses == {"204", "500"}
\* http.DefaultClient's transport, and the transport NewLoki builds
Transports == {"default", "own"}

\* one Teams.Send attempt: the error of serializeEventWithLayout, of
\* http.NewRequest, of http.DefaultClient.Do and of io.ReadAll, the status
\* code, and whether the body holds the rate-limit marker
TeamsAttempts ==
    [layout : StepResults, request : StepResults, do : StepResults,
     read : StepResults, status : TeamsStatuses, marker : BOOLEAN]
NoAttempt ==
    [layout |-> "nil", request |-> "nil", do |-> "nil", read |-> "nil",
     status |-> "200", marker |-> FALSE]

\* one Loki.Send attempt: the error of the steps before the request is
\* sent, of client.Do and of ioutil.ReadAll, and the status code
LokiAttempts ==
    [early : StepResults, do : StepResults, read : StepResults,
     status : LokiStatuses]

\* the sinks as NewTeamsSink and NewLoki return them
SinksIdle ==
    /\ teamsIn = NoAttempt
    /\ teamsRet = "none"
    /\ idleConns = [tr \in Transports |-> 0]
    /\ lokiRet = "none"
    /\ lokiClosed = FALSE
    /\ sends = 0

\* ------------------------------------------------------------------ Init
\* NewMetricsStore: every counter starts at zero
NewMetricsStore ==
    [EventsProcessed |-> 0, EventsDiscarded |-> 0, WatchErrors |-> 0,
     SendErrors |-> 0, KubeApiReadCacheHits |-> 0, KubeApiReadRequests |-> 0]

\* NewEventWatcher, with startUpTime = time.Now() at package initialisation
NewEventWatcher ==
    /\ omitLookup \in BOOLEAN
    /\ maxEventAgeSeconds \in 0 .. MaxAge
    /\ startUpTime = Epoch + 1
    /\ metricsStore = NewMetricsStore
    /\ warnings = 0
    /\ objectMetadataCache = <<>>
    /\ stopper = "open"
    /\ wg = 0
    /\ started = FALSE
    /\ run = "none"
    /\ stop = "none"
    /\ stopAfterStart = FALSE
    /\ pc = "idle"
    /\ event = NoEvent
    /\ timestamp = NoTime
    /\ eventAge = 0
    /\ ev = NoEnhancedEvent
    /\ err = "nil"
    /\ callback = "none"
    /\ received = 0
    /\ fnLog = <<>>
    /\ fnRunning = 0
    /\ lastLookup = NoLookup

\* the program after construction
Init ==
    /\ NewEventWatcher
    /\ RouterIdle
    /\ LookupsIdle
    /\ SinksIdle

\* ------------------------------------------------------------------ age filter
\* time.Since(t) read at clock value now
Since(now, t) == now - t

\* variant: LastTimestamp is looked at before the series
DerivedTimestampLastFirst(e) ==
    IF e.LastTimestamp # ZeroTime THEN e.LastTimestamp
    ELSE IF e.Series # NoSeries /\ e.Series[1] # ZeroTime THEN e.Series[1]
    ELSE e.EventTime

\* lines 76-83: series, then LastTimestamp, then EventTime
DerivedTimestamp(e) ==
    IF e.Series # NoSeries /\ e.Series[1] # ZeroTime THEN e.Series[1]
    ELSE IF e.LastTimestamp # ZeroTime THEN e.LastTimestamp
    ELSE e.EventTime

\* counter.Inc() on one field of the store
Inc(store, field) == [store EXCEPT ![field] = @ + 1]

\* variant: the start-up time gates the discard itself, not only the warning
isEventDiscardedAfterStartOnly(e, now) ==
    LET ts == DerivedTimestamp(e)
        age == Since(now, ts)
        old == age > maxEventAgeSeconds
        after == ts > startUpTime
    IN [timestamp |-> ts,
        eventAge |-> age,
        discarded |-> old /\ after,
        warned |-> old /\ after,
        store |-> IF old /\ after THEN Inc(metricsStore, "EventsDiscarded")
                  ELSE metricsStore]

\* isEventDiscarded (lines 74-99), called when the clock reads now:
\* its locals, its return value, whether it warns, and the store it leaves
isEventDiscarded(e, now) ==
    LET ts == DerivedTimestamp(e)
        age == Since(now, ts)
        old == age > maxEventAgeSeconds
        after == ts > startUpTime
    IN [timestamp |-> ts,
        eventAge |-> age,
        discarded |-> old,
        warned |-> old /\ after,
        store |-> IF old /\ after THEN Inc(metricsStore, "EventsDiscarded")
                  ELSE metricsStore]

\* the informer calls its handler's callbacks one at a time, while it runs
Delivering == pc = "idle" /\ run = "running"

\* onEvent up to the return of isEventDiscarded (lines 101-104); the callback
\* that calls it is recorded by OnAdd and OnUpdate
onEvent(e, now) ==
    LET r == isEventDiscarded(e, now)
    IN /\ Delivering
       /\ received < MaxNotifs
       /\ received' = received + 1
       /\ event' = e
       /\ timestamp' = r.timestamp
       /\ eventAge' = r.eventAge
       /\ warnings' = IF r.warned THEN warnings + 1 ELSE warnings
       /\ metricsStore' = r.store
       /\ pc' = IF r.discarded THEN "return" ELSE "inc"
       /\ UNCHANGED <<config, others, history, startUpTime, objectMetadataCache, lifecycle, ev, err,
                      handler>>

\* OnAdd (lines 61-64)
OnAdd(obj, isInInitialList, now) ==
    /\ onEvent(obj, now)
    /\ callback' = "OnAdd"

\* variant: the update is processed with the object it replaces
OnUpdateOldObject(oldObj, newObj, now) ==
    /\ onEvent(oldObj, now)
    /\ callback' = "OnUpdate"

\* OnUpdate (lines 67-71)
OnUpdate(oldObj, newObj, now) ==
    /\ onEvent(newObj, now)
    /\ callback' = "OnUpdate"

\* OnDelete (lines 144-146)
OnDelete(obj) ==
    /\ Delivering
    /\ UNCHANGED vars

\* variant: the processed counter is incremented before the age check
ReturnDiscardedCountsProcessed ==
    /\ pc = "return"
    /\ pc' = "idle"
    /\ callback' = "none"
    /\ event' = NoEvent
    /\ timestamp' = NoTime
    /\ eventAge' = 0
    /\ metricsStore' = Inc(metricsStore, "EventsProcessed")
    /\ UNCHANGED <<config, others, history, startUpTime, warnings, objectMetadataCache,
                   lifecycle, ev, err, received, handler>>

\* line 103: onEvent returns for a discarded event
ReturnDiscarded ==
    /\ pc = "return"
    /\ pc' = "idle"
    /\ callback' = "none"
    /\ event' = NoEvent
    /\ timestamp' = NoTime
    /\ eventAge' = 0
    /\ UNCHANGED <<config, others, history, startUpTime, metricsStore, warnings, objectMetadataCache,
                   lifecycle, ev, err, received, handler>>

\* variant: the copy is made but the processed counter is not incremented
IncProcessedWithoutCount ==
    /\ pc = "inc"
    /\ ev' = [Event |-> [event EXCEPT !.ManagedFields = <<>>],
              InvolvedObject |-> ZeroInvolvedObject]
    /\ pc' = "enrich"
    /\ callback' = "none"
    /\ timestamp' = NoTime
    /\ eventAge' = 0
    /\ UNCHANGED <<config, others, history, startUpTime, metricsStore, warnings, objectMetadataCache,
                   lifecycle, event, err, received, handler>>

\* lines 113-118: count the event, deep-copy it, drop the managed fields
IncProcessed ==
    /\ pc = "inc"
    /\ metricsStore' = Inc(metricsStore, "EventsProcessed")
    /\ ev' = [Event |-> [event EXCEPT !.ManagedFields = <<>>],
              InvolvedObject |-> ZeroInvolvedObject]
    /\ pc' = "enrich"
    /\ callback' = "none"
    /\ timestamp' = NoTime
    /\ eventAge' = 0
    /\ UNCHANGED <<config, others, history, startUpTime, warnings, objectMetadataCache, lifecycle,
                   event, err, received, handler>>

\* lines 120-121: enrichment disabled, the reference is copied through
OmitLookup ==
    /\ pc = "enrich"
    /\ omitLookup
    /\ ev' = [ev EXCEPT !.InvolvedObject.ObjectReference = event.InvolvedObject]
    /\ pc' = "callfn"
    /\ UNCHANGED <<config, others, history, startUpTime, metricsStore, warnings, objectMetadataCache,
                   lifecycle, callback, event, timestamp, eventAge, err, received,
                   handler>>

\* ------------------------------------------------------------------ cache
\* position of key k in the cache, 0 when absent
CacheIndex(c, k) ==
    IF \E i \in DOMAIN c : c[i].key = k
    THEN CHOOSE i \in DOMAIN c : c[i].key = k
    ELSE 0

\* the entry at position i becomes the most recently used
CacheTouch(c, i) ==
    [j \in 1 .. Len(c) |->
        IF j < i THEN c[j] ELSE IF j < Len(c) THEN c[j + 1] ELSE c[i]]

\* insert an entry, evicting the least recently used one at capacity
CacheAdd(c, k, md) ==
    Append(IF Len(c) >= CacheSize THEN Tail(c) ELSE c, [key |-> k, md |-> md])

\* variant: what the control plane answers is returned but never kept
GetObjectMetadataWithoutInsert(reference, r) ==
    LET i == CacheIndex(objectMetadataCache, reference)
    IN IF i # 0
       THEN [md |-> objectMetadataCache[i].md,
             err |-> "nil",
             cache |-> CacheTouch(objectMetadataCache, i),
             store |-> Inc(metricsStore, "KubeApiReadCacheHits")]
       ELSE [md |-> r.md,
             err |-> r.err,
             cache |-> objectMetadataCache,
             store |-> Inc(metricsStore, "KubeApiReadRequests")]

\* GetObjectMetadata(reference), where r is what the control plane would answer
GetObjectMetadata(reference, r) ==
    LET i == CacheIndex(objectMetadataCache, reference)
    IN IF i # 0
       THEN [md |-> objectMetadataCache[i].md,
             err |-> "nil",
             cache |-> CacheTouch(objectMetadataCache, i),
             store |-> Inc(metricsStore, "KubeApiReadCacheHits")]
       ELSE [md |-> r.md,
             err |-> r.err,
             cache |-> IF r.err = "Other" THEN objectMetadataCache
                       ELSE CacheAdd(objectMetadataCache, reference, r.md),
             store |-> Inc(metricsStore, "KubeApiReadRequests")]

\* variant: a not-found error leaves the deletion flag unset
EnrichedWithoutDeletedFlag(reference, md, e) ==
    IF e # "nil"
    THEN [ZeroInvolvedObject EXCEPT !.ObjectReference = reference]
    ELSE [ObjectReference |-> reference, Labels |-> md.Labels,
          Annotations |-> md.Annotations, OwnerReferences |-> md.OwnerReferences,
          Deleted |-> md.Deleted]

\* lines 124-138: the involved object of the EnhancedEvent after the lookup
Enriched(reference, md, e) ==
    IF e # "nil"
    THEN [ZeroInvolvedObject EXCEPT !.Deleted = (e = "NotFound"),
                                    !.ObjectReference = reference]
    ELSE [ObjectReference |-> reference, Labels |-> md.Labels,
          Annotations |-> md.Annotations, OwnerReferences |-> md.OwnerReferences,
          Deleted |-> md.Deleted]

\* variant: the cache is consulted whether or not the lookup is disabled
LookupIgnoringOmitLookup(r) ==
    LET res == GetObjectMetadata(event.InvolvedObject, r)
    IN /\ pc = "enrich"
       /\ objectMetadataCache' = res.cache
       /\ metricsStore' = res.store
       /\ ev' = [ev EXCEPT !.InvolvedObject =
                    Enriched(event.InvolvedObject, res.md, res.err)]
       /\ err' = res.err
       /\ lastLookup' = [reference |-> event.InvolvedObject, err |-> res.err,
                         involved |-> ev'.InvolvedObject]
       /\ pc' = "callfn"
       /\ UNCHANGED <<config, others, startUpTime, warnings, lifecycle, callback, event,
                      timestamp, eventAge, received, handler>>

\* lines 122-139: enrichment through the metadata cache
Lookup(r) ==
    LET res == GetObjectMetadata(event.InvolvedObject, r)
    IN /\ pc = "enrich"
       /\ ~omitLookup
       /\ objectMetadataCache' = res.cache
       /\ metricsStore' = res.store
       /\ ev' = [ev EXCEPT !.InvolvedObject =
                    Enriched(event.InvolvedObject, res.md, res.err)]
       /\ err' = res.err
       /\ lastLookup' = [reference |-> event.InvolvedObject, err |-> res.err,
                         involved |-> ev'.InvolvedObject]
       /\ pc' = "callfn"
       /\ UNCHANGED <<config, others, startUpTime, warnings, lifecycle, callback, event,
                      timestamp, eventAge, received, handler>>

\* ------------------------------------------------------------------ handler
\* variant: the handler is started on a goroutine of its own (go e.fn(ev))
CallHandlerAsync ==
    /\ pc = "callfn"
    /\ fnLog' = Append(fnLog, received)
    /\ fnRunning' = fnRunning + 1
    /\ pc' = "idle"
    /\ event' = NoEvent
    /\ ev' = NoEnhancedEvent
    /\ err' = "nil"
    /\ UNCHANGED <<config, others, history, startUpTime, metricsStore, warnings, objectMetadataCache,
                   lifecycle, callback, timestamp, eventAge, received>>

\* line 141: e.fn(ev) is called on the callback goroutine
CallHandler ==
    /\ pc = "callfn"
    /\ fnLog' = Append(fnLog, received)
    /\ fnRunning' = fnRunning + 1
    /\ pc' = "infn"
    /\ UNCHANGED <<config, others, history, startUpTime, metricsStore, warnings, objectMetadataCache,
                   lifecycle, locals, received>>

\* what a handler can write to through the EnhancedEvent it is handed
HandlerTargets == {"Event", "Labels"}
HandlerFields == <<"handler">>
HandlerLabels == <<"app=changed">>

\* the cache after a write to the label map its entry for key k holds
CacheWriteLabels(c, k, labels) ==
    [i \in DOMAIN c |->
        IF c[i].key = k THEN [c[i] EXCEPT !.md.Labels = labels] ELSE c[i]]

\* variant: ev.Event shares its managed fields with the event of the stream
HandlerWritesSharedEvent(what) ==
    /\ pc = "infn"
    /\ IF what = "Event"
       THEN /\ ev.Event.ManagedFields # HandlerFields
            /\ ev' = [ev EXCEPT !.Event.ManagedFields = HandlerFields]
            /\ event' = [event EXCEPT !.ManagedFields = HandlerFields]
            /\ UNCHANGED objectMetadataCache
       ELSE /\ ev.InvolvedObject.Labels # <<>>
            /\ ev.InvolvedObject.Labels # HandlerLabels
            /\ ev' = [ev EXCEPT !.InvolvedObject.Labels = HandlerLabels]
            /\ objectMetadataCache' =
                  CacheWriteLabels(objectMetadataCache,
                                   ev.InvolvedObject.ObjectReference, HandlerLabels)
            /\ UNCHANGED event
    /\ UNCHANGED <<config, others, history, startUpTime, metricsStore, warnings,
                   lifecycle, pc, callback, timestamp, eventAge, err,
                   received, handler>>

\* the handler writes to the EnhancedEvent while it runs (line 141).
\* ev.Event is the deep copy of line 115, so a write to it stays in ev.
\* ev.InvolvedObject.Labels is the map GetObjectMetadata returned, assigned
\* without a copy at line 133: the cache entry holds the same map, and a
\* write to it shows in both.  A nil map cannot be written to.
HandlerWrites(what) ==
    /\ pc = "infn"
    /\ IF what = "Event"
       THEN /\ ev.Event.ManagedFields # HandlerFields
            /\ ev' = [ev EXCEPT !.Event.ManagedFields = HandlerFields]
            /\ UNCHANGED objectMetadataCache
       ELSE /\ ev.InvolvedObject.Labels # <<>>
            /\ ev.InvolvedObject.Labels # HandlerLabels
            /\ ev' = [ev EXCEPT !.InvolvedObject.Labels = HandlerLabels]
            /\ objectMetadataCache' =
                  CacheWriteLabels(objectMetadataCache,
                                   ev.InvolvedObject.ObjectReference, HandlerLabels)
    /\ UNCHANGED <<config, others, history, startUpTime, metricsStore, warnings,
                   lifecycle, pc, callback, event, timestamp, eventAge, err,
                   received, handler>>

\* e.fn(ev) returns, and with it onEvent (line 142)
HandlerReturn ==
    /\ fnRunning > 0
    /\ fnRunning' = fnRunning - 1
    /\ IF pc = "infn"
       THEN /\ pc' = "idle"
            /\ event' = NoEvent
            /\ timestamp' = NoTime
            /\ eventAge' = 0
            /\ ev' = NoEnhancedEvent
            /\ err' = "nil"
            /\ UNCHANGED callback
       ELSE UNCHANGED <<pc, locals>>
    /\ UNCHANGED <<config, others, history, startUpTime, metricsStore, warnings, objectMetadataCache,
                   lifecycle, received, fnLog>>

\* ------------------------------------------------------------------ watch errors
\* variant: a watch error also shuts the watcher down
WatchErrorHandlerStops ==
    /\ run = "running"
    /\ metricsStore.WatchErrors < MaxWatchErrors
    /\ metricsStore' = Inc(metricsStore, "WatchErrors")
    /\ stopper' = "closed"
    /\ UNCHANGED <<config, others, history, startUpTime, warnings, objectMetadataCache, wg, started,
                   run, stop, stopAfterStart, pc, locals, received, handler>>

\* the watch error handler NewEventWatcher installs (lines 54-56)
WatchErrorHandler ==
    /\ run = "running"
    /\ metricsStore.WatchErrors < MaxWatchErrors
    /\ metricsStore' = Inc(metricsStore, "WatchErrors")
    /\ UNCHANGED <<config, others, history, startUpTime, warnings, objectMetadataCache, lifecycle,
                   pc, locals, received, handler>>

\* ------------------------------------------------------------------ Start / Stop
\* Start (lines 148-154): wg.Add(1), spawn the goroutine, return
Start ==
    /\ ~started
    /\ started' = TRUE
    /\ wg' = wg + 1
    /\ run' = "spawned"
    /\ UNCHANGED <<config, others, history, startUpTime, metricsStore, warnings, objectMetadataCache,
                   stopper, stop, stopAfterStart, pc, locals, received, handler>>

\* line 152: the goroutine enters informer.Run(e.stopper).  An informer run on
\* a channel that is already closed starts no watch and delivers nothing.
InformerRun ==
    /\ run = "spawned"
    /\ run' = IF stopper = "closed" THEN "stopping" ELSE "running"
    /\ UNCHANGED <<config, others, history, startUpTime, metricsStore, warnings, objectMetadataCache,
                   stopper, wg, started, stop, stopAfterStart, pc, locals, received,
                   handler>>

\* informer.Run returns once the stop channel is closed and the callback
\* in progress has returned; the deferred wg.Done() runs (line 151)
InformerReturn ==
    /\ run \in {"running", "stopping"}
    /\ stopper = "closed"
    /\ pc = "idle"
    /\ run' = "returned"
    /\ wg' = wg - 1
    /\ UNCHANGED <<config, others, history, startUpTime, metricsStore, warnings, objectMetadataCache,
                   stopper, started, stop, stopAfterStart, pc, locals, received,
                   handler>>

\* Stop, line 157: close(e.stopper); the caller then blocks in wg.Wait()
Stop ==
    /\ stop = "none"
    /\ stopper' = "closed"
    /\ stop' = "waiting"
    /\ stopAfterStart' = started
    /\ UNCHANGED <<config, others, history, startUpTime, metricsStore, warnings, objectMetadataCache,
                   wg, started, run, pc, locals, received, handler>>

\* variant: Stop returns once the channel is closed, without wg.Wait()
StopReturnWithoutWait ==
    /\ stop = "waiting"
    /\ stop' = "returned"
    /\ UNCHANGED <<config, others, history, startUpTime, metricsStore, warnings, objectMetadataCache,
                   stopper, wg, started, run, stopAfterStart, pc, locals, received,
                   handler>>

\* Stop, line 158: wg.Wait() returns when the counter is zero
StopReturn ==
    /\ stop = "waiting"
    /\ wg = 0
    /\ stop' = "returned"
    /\ UNCHANGED <<config, others, history, startUpTime, metricsStore, warnings, objectMetadataCache,
                   stopper, wg, started, run, stopAfterStart, pc, locals, received,
                   handler>>

\* setStartUpTime (lines 161-163), the hook the tests call before feeding events
setStartUpTime(time) ==
    /\ ~started
    /\ startUpTime' = time
    /\ UNCHANGED <<config, others, history, metricsStore, warnings, objectMetadataCache, lifecycle,
                   pc, locals, received, handler>>

\* ------------------------------------------------------------------ Next
Next ==
    \/ /\ Delivering
       /\ \E obj \in Events, isInInitialList \in BOOLEAN, now \in Clock :
             OnAdd(obj, isInInitialList, now)
    \/ /\ Delivering
       /\ \E oldObj \in Events, newObj \in Events, now \in Clock :
             OnUpdate(oldObj, newObj, now)
    \/ /\ Delivering
       /\ \E obj \in Events : OnDelete(obj)
    \/ ReturnDiscarded
    \/ IncProcessed
    \/ OmitLookup
    \/ \E r \in BackendResults : Lookup(r)
    \/ CallHandler
    \/ \E what \in HandlerTargets : HandlerWrites(what)
    \/ HandlerReturn
    \/ WatchErrorHandler
    \/ Start
    \/ InformerRun
    \/ InformerReturn
    \/ Stop
    \/ StopReturn
    \/ \E time \in StartUpTimes : setStartUpTime(time)

Spec == Init /\ [][Next]_vars

\* Scheduling: every goroutine that can take a step eventually takes it, the
\* handler returns, and informer.Run returns once its stop channel is closed.
Fairness ==
    /\ WF_vars(InformerRun)
    /\ SF_vars(InformerReturn)
    /\ WF_vars(StopReturn)
    /\ WF_vars(ReturnDiscarded)
    /\ WF_vars(IncProcessed)
    /\ WF_vars(OmitLookup)
    /\ WF_vars(\E r \in BackendResults : Lookup(r))
    /\ WF_vars(CallHandler)
    /\ WF_vars(HandlerReturn)

FairSpec == Spec /\ Fairness

\* ------------------------------------------------------------------ age filter runs
\* The watcher once Start() has returned and the informer runs, with any
\* start-up time the program or its tests set.
AgeInit ==
    /\ omitLookup \in BOOLEAN
    /\ maxEventAgeSeconds \in 0 .. MaxAge
    /\ startUpTime \in {Epoch + 1} \cup StartUpTimes
    /\ metricsStore = NewMetricsStore
    /\ warnings = 0
    /\ objectMetadataCache = <<>>
    /\ stopper = "open"
    /\ wg = 1
    /\ started = TRUE
    /\ run = "running"
    /\ stop = "none"
    /\ stopAfterStart = FALSE
    /\ pc = "idle"
    /\ event = NoEvent
    /\ timestamp = NoTime
    /\ eventAge = 0
    /\ ev = NoEnhancedEvent
    /\ err = "nil"
    /\ callback = "none"
    /\ received = 0
    /\ fnLog = <<>>
    /\ fnRunning = 0
    /\ lastLookup = NoLookup
    /\ RouterIdle
    /\ LookupsIdle
    /\ SinksIdle

\* the callbacks of the running watcher, fed events of every timestamp shape
AgeNext ==
    \/ /\ Delivering
       /\ \E obj \in AgeEvents, isInInitialList \in BOOLEAN, now \in Clock :
             OnAdd(obj, isInInitialList, now)
    \/ /\ Delivering
       /\ \E oldObj \in Events, newObj \in AgeEvents, now \in Clock :
             OnUpdate(oldObj, newObj, now)
    \/ /\ Delivering
       /\ \E obj \in AgeEvents : OnDelete(obj)
    \/ ReturnDiscarded
    \/ IncProcessed
    \/ OmitLookup
    \/ \E r \in BackendResults : Lookup(r)
    \/ CallHandler
    \/ HandlerReturn

AgeSpec == AgeInit /\ [][AgeNext]_vars

\* ------------------------------------------------------------------ router
\* the watcher's variables other than the counters
watcher == <<config, history, startUpTime, warnings, objectMetadataCache, lifecycle,
             pc, locals, received, handler>>

\* Router.ProcessEvent, lines 10-12: hands the event and the registry to the
\* root route, whose walk decides the SendEvent calls
RouterProcessEvent(e) ==
    /\ rpc = "ready"
    /\ rpc' = "routing"
    /\ routed' = e
    /\ todo' = RouteProcessEvent(routeCfg, e)
    /\ UNCHANGED <<watcher, lookups, sinks, metricsStore, routeCfg, pendingSends, sendOk, sendFailed>>

\* ReceiverRegistry.SendEvent: the next call of the walk hands the event to
\* the destination's adapter and returns without waiting for the send
SendEvent ==
    /\ rpc = "routing"
    /\ todo # <<>>
    /\ pendingSends' = pendingSends \cup {Head(todo)}
    /\ todo' = Tail(todo)
    /\ UNCHANGED <<watcher, lookups, sinks, metricsStore, routeCfg, rpc, routed, sendOk, sendFailed>>

\* the walk is over: Router.ProcessEvent returns
RouterReturn ==
    /\ rpc = "routing"
    /\ todo = <<>>
    /\ rpc' = "done"
    /\ UNCHANGED <<watcher, lookups, sinks, metricsStore, routeCfg, routed, todo, pendingSends,
                   sendOk, sendFailed>>

\* variant: a failed send makes the registry give up the sends still waiting
AdapterSendFailureStopsAll(name, res) ==
    /\ name \in pendingSends
    /\ IF res = "nil"
       THEN /\ pendingSends' = pendingSends \ {name}
            /\ sendOk' = sendOk \cup {name}
            /\ UNCHANGED <<sendFailed, metricsStore>>
       ELSE /\ pendingSends' = {}
            /\ sendFailed' = sendFailed \cup {name}
            /\ metricsStore' = Inc(metricsStore, "SendErrors")
            /\ UNCHANGED sendOk
    /\ UNCHANGED <<watcher, lookups, sinks, routeCfg, rpc, routed, todo>>

\* the registry's task of one destination calls the adapter's Send; a
\* failure is logged and counted, and nothing else
AdapterSend(name, res) ==
    /\ name \in pendingSends
    /\ pendingSends' = pendingSends \ {name}
    /\ IF res = "nil"
       THEN /\ sendOk' = sendOk \cup {name}
            /\ UNCHANGED <<sendFailed, metricsStore>>
       ELSE /\ sendFailed' = sendFailed \cup {name}
            /\ metricsStore' = Inc(metricsStore, "SendErrors")
            /\ UNCHANGED sendOk
    /\ UNCHANGED <<watcher, lookups, sinks, routeCfg, rpc, routed, todo>>

\* what an adapter's Send returns
SendResults == {"nil", "error"}

\* destinations of every route tree
Destinations == {<<>>} \cup { <<i>> : i \in 1 .. MaxRoutes } \cup {<<1, 1>>}

\* a router over any route tree, behind a watcher that has just been built
RouteInit ==
    /\ NewEventWatcher
    /\ ~omitLookup
    /\ maxEventAgeSeconds = 0
    /\ routeCfg \in RouteTrees
    /\ rpc = "ready"
    /\ routed = {}
    /\ todo = <<>>
    /\ pendingSends = {}
    /\ sendOk = {}
    /\ sendFailed = {}
    /\ LookupsIdle
    /\ SinksIdle

RouteNext ==
    \/ \E e \in SUBSET Rules : RouterProcessEvent(e)
    \/ SendEvent
    \/ RouterReturn
    \/ \E name \in Destinations, res \in SendResults : AdapterSend(name, res)

RouteSpec == RouteInit /\ [][RouteNext]_vars

\* ------------------------------------------------------------------ concurrent lookups
\* everything but the cache, its counters and the calling tasks
notLookups == <<config, history, startUpTime, warnings, lifecycle, pc, locals,
                received, handler, routing, sinks>>

\* variant: every miss starts a backend read of its own
TaskCallWithoutCoalescing(t, reference) ==
    LET i == CacheIndex(objectMetadataCache, reference)
        id == metricsStore.KubeApiReadRequests + 1
    IN /\ tasks[t].pc = "idle"
       /\ calls < MaxCalls
       /\ calls' = calls + 1
       /\ IF i # 0
          THEN /\ tasks' = [tasks EXCEPT ![t] =
                    [pc |-> "done", key |-> reference, read |-> 0,
                     result |-> [err |-> "nil", md |-> objectMetadataCache[i].md]]]
               /\ objectMetadataCache' = CacheTouch(objectMetadataCache, i)
               /\ metricsStore' = Inc(metricsStore, "KubeApiReadCacheHits")
               /\ UNCHANGED inflight
          ELSE /\ tasks' = [tasks EXCEPT ![t] =
                    [pc |-> "reading", key |-> reference, read |-> id,
                     result |-> NoResult]]
               /\ inflight' = [inflight EXCEPT ![reference] = @ \cup {id}]
               /\ metricsStore' = Inc(metricsStore, "KubeApiReadRequests")
               /\ UNCHANGED objectMetadataCache
       /\ UNCHANGED notLookups

\* a task enters GetObjectMetadata(reference) (watcher.go line 123): a hit
\* returns the cached entry; a miss starts the one backend read of the key,
\* or joins the read of the key that is already in flight
TaskCall(t, reference) ==
    LET i == CacheIndex(objectMetadataCache, reference)
        id == metricsStore.KubeApiReadRequests + 1
    IN /\ tasks[t].pc = "idle"
       /\ calls < MaxCalls
       /\ calls' = calls + 1
       /\ IF i # 0
          THEN /\ tasks' = [tasks EXCEPT ![t] =
                    [pc |-> "done", key |-> reference, read |-> 0,
                     result |-> [err |-> "nil", md |-> objectMetadataCache[i].md]]]
               /\ objectMetadataCache' = CacheTouch(objectMetadataCache, i)
               /\ metricsStore' = Inc(metricsStore, "KubeApiReadCacheHits")
               /\ UNCHANGED inflight
          ELSE IF inflight[reference] = {}
          THEN /\ tasks' = [tasks EXCEPT ![t] =
                    [pc |-> "reading", key |-> reference, read |-> id,
                     result |-> NoResult]]
               /\ inflight' = [inflight EXCEPT ![reference] = {id}]
               /\ metricsStore' = Inc(metricsStore, "KubeApiReadRequests")
               /\ UNCHANGED objectMetadataCache
          ELSE /\ tasks' = [tasks EXCEPT ![t] =
                    [pc |-> "waiting", key |-> reference,
                     read |-> CHOOSE id2 \in inflight[reference] : TRUE,
                     result |-> NoResult]]
               /\ UNCHANGED <<inflight, objectMetadataCache, metricsStore>>
       /\ UNCHANGED notLookups

\* the backend read id of a key answers r: the entry is inserted unless the
\* read failed with an error other than not-found, and the task that started
\* the read and every task that joined it are handed r
ReadReturns(reference, id, r) ==
    /\ id \in inflight[reference]
    /\ inflight' = [inflight EXCEPT ![reference] = @ \ {id}]
    /\ objectMetadataCache' =
          IF r.err = "Other" \/ CacheIndex(objectMetadataCache, reference) # 0
          THEN objectMetadataCache
          ELSE CacheAdd(objectMetadataCache, reference, r.md)
    /\ tasks' = [t \in Tasks |->
                    IF tasks[t].read = id /\ tasks[t].pc \in {"reading", "waiting"}
                    THEN [tasks[t] EXCEPT !.pc = "done", !.result = r]
                    ELSE tasks[t]]
    /\ UNCHANGED <<notLookups, metricsStore, calls>>

\* GetObjectMetadata returns to the task
TaskReturn(t) ==
    /\ tasks[t].pc = "done"
    /\ tasks' = [tasks EXCEPT ![t] = IdleTask]
    /\ UNCHANGED <<notLookups, metricsStore, objectMetadataCache, inflight, calls>>

\* one provider shared by the tasks, behind a watcher that has just been built
CacheInit ==
    /\ NewEventWatcher
    /\ ~omitLookup
    /\ maxEventAgeSeconds = 0
    /\ RouterIdle
    /\ LookupsIdle
    /\ SinksIdle

CacheNext ==
    \/ \E t \in Tasks, reference \in Objects : TaskCall(t, reference)
    \/ \E reference \in Objects, id \in 1 .. MaxCalls, r \in BackendResults :
          ReadReturns(reference, id, r)
    \/ \E t \in Tasks : TaskReturn(t)

CacheSpec == CacheInit /\ [][CacheNext]_vars

\* ------------------------------------------------------------------ sink sends
\* everything but the sinks
notSinks == <<watcher, metricsStore, routing, lookups>>

\* Teams.Send, lines 33-82: the error it returns ("nil": none)
TeamsSend(a) ==
    IF a.layout # "nil" THEN "layout"                    \* lines 34-37
    ELSE IF a.request # "nil" THEN "request"             \* lines 51-54
    ELSE IF a.do # "nil" THEN "nil"                      \* lines 60-63
    ELSE IF a.read # "nil" THEN "read"                   \* lines 66-71
    ELSE IF a.status # "200" THEN "not 200"              \* lines 73-75
    ELSE IF a.marker THEN "rate limited"                 \* lines 77-79
    ELSE "nil"                                           \* line 81

\* the attempt delivered the event: every step succeeded and the endpoint
\* answered 200 without the rate-limit marker
TeamsDelivered(a) ==
    /\ a.layout = "nil" /\ a.request = "nil" /\ a.do = "nil" /\ a.read = "nil"
    /\ a.status = "200"
    /\ ~a.marker

\* a call of Teams.Send
TeamsSendCall(a) ==
    /\ sends < MaxSends
    /\ sends' = sends + 1
    /\ teamsIn' = a
    /\ teamsRet' = TeamsSend(a)
    /\ UNCHANGED <<notSinks, idleConns, lokiRet, lokiClosed>>

\* the transport Loki.Send sends its request through: that of
\* http.DefaultClient (line 122), not the sink's own
LokiSendTransport == "default"

\* Loki.Send, lines 95-140: the error it returns ("nil": none)
LokiSend(a) ==
    IF a.early # "nil" THEN "early"
    ELSE IF a.do # "nil" THEN "do"
    ELSE IF a.read # "nil" THEN "read"
    ELSE IF a.status # "204" THEN "not 2xx"
    ELSE "nil"

\* a call of Loki.Send.  A request that is answered uses a connection of the
\* transport, an idle one if there is one; once the body has been read to
\* its end and closed the connection is idle in that transport's pool, and
\* a body that cannot be read loses the connection.
LokiSendCall(a) ==
    /\ sends < MaxSends
    /\ ~lokiClosed
    /\ sends' = sends + 1
    /\ lokiRet' = LokiSend(a)
    /\ idleConns' =
          IF a.early # "nil" \/ a.do # "nil" THEN idleConns
          ELSE IF a.read # "nil" THEN [idleConns EXCEPT ![LokiSendTransport] = 0]
          ELSE [idleConns EXCEPT ![LokiSendTransport] = 1]
    /\ UNCHANGED <<notSinks, teamsIn, teamsRet, lokiClosed>>

\* Loki.Close, lines 142-144: l.transport.CloseIdleConnections()
LokiClose ==
    /\ ~lokiClosed
    /\ lokiClosed' = TRUE
    /\ idleConns' = [idleConns EXCEPT !["own"] = 0]
    /\ UNCHANGED <<notSinks, teamsIn, teamsRet, lokiRet, sends>>

\* the sinks behind a watcher that has just been built
SinkInit ==
    /\ NewEventWatcher
    /\ ~omitLookup
    /\ maxEventAgeSeconds = 0
    /\ RouterIdle
    /\ LookupsIdle
    /\ SinksIdle

SinkNext ==
    \/ \E a \in TeamsAttempts : TeamsSendCall(a)
    \/ \E a \in LokiAttempts : LokiSendCall(a)
    \/ LokiClose

SinkSpec == SinkInit /\ [][SinkNext]_vars

\* ------------------------------------------------------------------ properties
\* the callback has just come back from isEventDiscarded
AgeChecked == pc \in {"return", "inc"}

\* the clock value isEventDiscarded read
ClockRead == eventAge + timestamp

\* C1: every add or update notification whose age exceeds the maximum age is
\* discarded without touching the cache, the processed counter or the
\* handler, and raises the events-discarded counter by exactly one, whether
\* its timestamp is before or after the start-up time.
C1_DiscardCountsEveryStaleEvent ==
    [][/\ (pc = "idle" /\ pc' # "idle" /\ eventAge' > maxEventAgeSeconds) =>
            /\ pc' = "return"
            /\ metricsStore'.EventsDiscarded = metricsStore.EventsDiscarded + 1
            /\ metricsStore'.EventsProcessed = metricsStore.EventsProcessed
            /\ UNCHANGED <<objectMetadataCache, fnLog, fnRunning>>
       /\ pc = "return" =>
            /\ pc' \in {"return", "idle"}
            /\ metricsStore'.EventsDiscarded = metricsStore.EventsDiscarded
            /\ metricsStore'.EventsProcessed = metricsStore.EventsProcessed
            /\ metricsStore'.KubeApiReadCacheHits = metricsStore.KubeApiReadCacheHits
            /\ metricsStore'.KubeApiReadRequests = metricsStore.KubeApiReadRequests
            /\ UNCHANGED <<objectMetadataCache, fnLog, fnRunning>>]_vars

\* C2: the age filter takes the series' last-observed time when the event has
\* a series and that time is non-zero, otherwise the last-timestamp when it is
\* non-zero, otherwise the first-observed time; the age is measured from that
\* timestamp and alone decides whether the event is discarded.
C2_TimestampPriority ==
    AgeChecked =>
        LET hasSeries == event.Series # NoSeries /\ event.Series[1] # ZeroTime
        IN /\ hasSeries => timestamp = event.Series[1]
           /\ (~hasSeries /\ event.LastTimestamp # ZeroTime) =>
                  timestamp = event.LastTimestamp
           /\ (~hasSeries /\ event.LastTimestamp = ZeroTime) =>
                  timestamp = event.EventTime
           /\ ClockRead \in Clock
           /\ (pc = "return") <=> (eventAge > maxEventAgeSeconds)

\* C2 witness: a series time that makes the event stale, although its
\* last-timestamp is recent enough to keep it
C2_SeriesDecidesWitness ==
    /\ pc = "return"
    /\ event.Series # NoSeries
    /\ event.Series[1] # ZeroTime
    /\ event.LastTimestamp # ZeroTime
    /\ timestamp = event.Series[1]
    /\ ClockRead - event.LastTimestamp <= maxEventAgeSeconds
    /\ ClockRead - event.EventTime <= maxEventAgeSeconds

\* C3: the warning is emitted exactly for the events that are discarded and
\* whose timestamp is after the start-up time; whether an event is discarded
\* depends on its age alone, not on the start-up time.
C3_WarningIffDiscardedAfterStartUp ==
    [][/\ (pc = "idle" /\ pc' # "idle") =>
            /\ warnings' = IF eventAge' > maxEventAgeSeconds /\ timestamp' > startUpTime
                           THEN warnings + 1 ELSE warnings
            /\ (pc' = "return") <=> (eventAge' > maxEventAgeSeconds)
       /\ (pc # "idle" \/ pc' = "idle") => warnings' = warnings]_vars

\* C3 witness: one stale event after start-up has been warned about, and a
\* second stale event from before start-up is being discarded silently
C3_WarningWitness ==
    /\ pc = "return"
    /\ received = 2
    /\ warnings = 1
    /\ eventAge > maxEventAgeSeconds
    /\ timestamp <= startUpTime

\* strictly increasing: no notification twice, and in delivery order
InOrder(log) == \A i, j \in DOMAIN log : i < j => log[i] < log[j]

\* the deep copy of the event being processed, without its managed fields
CopyOfEvent == [event EXCEPT !.ManagedFields = <<>>]

\* the EnhancedEvent holds that copy, up to what the handler wrote to it
HandedCopy ==
    IF pc = "infn"
    THEN ev.Event \in {CopyOfEvent, [CopyOfEvent EXCEPT !.ManagedFields = HandlerFields]}
    ELSE ev.Event = CopyOfEvent

\* C4: a notification that is not discarded increments the processed counter
\* exactly once, before the cache is consulted and before the handler runs,
\* and leads to exactly one handler call, with the EnhancedEvent built from it.
C4_ProcessedThenHandledOnce ==
    /\ [](LET n == Len(fnLog)
          IN /\ pc \in {"idle", "return", "inc"} => metricsStore.EventsProcessed = n
             /\ pc \in {"enrich", "callfn"} =>
                    /\ metricsStore.EventsProcessed = n + 1
                    /\ n > 0 => fnLog[n] < received
             /\ pc = "infn" =>
                    /\ metricsStore.EventsProcessed = n
                    /\ n > 0
                    /\ fnLog[n] = received
             /\ pc \in {"callfn", "infn"} =>
                    /\ HandedCopy
                    /\ ev.InvolvedObject.ObjectReference = event.InvolvedObject
             /\ InOrder(fnLog))
    /\ [][/\ pc = "inc" => pc' \in {"inc", "enrich"}
          /\ pc = "enrich" => pc' \in {"enrich", "callfn"}
          /\ pc = "callfn" => pc' \in {"callfn", "infn"}
          /\ pc = "infn" => pc' \in {"infn", "idle"}
          /\ fnLog' # fnLog => pc = "callfn" /\ fnLog' = Append(fnLog, received)]_vars

\* C4 witness: the handler runs for the second event that was not discarded
C4_HandledWitness ==
    /\ pc = "infn"
    /\ fnLog = <<1, 2>>
    /\ metricsStore.EventsProcessed = 2
    /\ metricsStore.EventsDiscarded = 0

\* C5: with enrichment enabled, an error of GetObjectMetadata does not abort
\* the processing: the handler is called once, with the unresolved reference
\* and no labels, annotations or owner references; the deletion flag is set
\* exactly when the error is not-found.
C5_LookupErrorStillHandled ==
    /\ []((pc \in {"callfn", "infn"} /\ err # "nil") =>
              /\ ~omitLookup
              /\ HandedCopy
              /\ ev.InvolvedObject =
                     [ObjectReference |-> event.InvolvedObject, Labels |-> <<>>,
                      Annotations |-> <<>>, OwnerReferences |-> <<>>,
                      Deleted |-> (err = "NotFound")])
    /\ [][/\ (pc = "enrich" /\ err' # "nil") => pc' = "callfn"
          /\ (pc = "callfn" /\ err # "nil" /\ pc' # "callfn") =>
                 /\ pc' = "infn"
                 /\ fnLog' = Append(fnLog, received)
          /\ (pc = "infn" /\ err # "nil") => fnLog' = fnLog]_vars

\* C5 witness: the handler runs for an event whose object was not found
C5_NotFoundWitness ==
    /\ pc = "infn"
    /\ err = "NotFound"
    /\ ev.InvolvedObject.Deleted
    /\ ev.InvolvedObject.ObjectReference = "Pod/default/web-1"

\* C6: with enrichment disabled the metadata cache is never called (no read,
\* no hit or miss counted, nothing cached), and the handler gets the
\* reference copied through with no labels, annotations, owner references or
\* deletion flag.
C6_OmitLookupBypassesCache ==
    omitLookup =>
        /\ metricsStore.KubeApiReadCacheHits = 0
        /\ metricsStore.KubeApiReadRequests = 0
        /\ objectMetadataCache = <<>>
        /\ err = "nil"
        /\ pc \in {"callfn", "infn"} =>
               ev.InvolvedObject =
                   [ObjectReference |-> event.InvolvedObject, Labels |-> <<>>,
                    Annotations |-> <<>>, OwnerReferences |-> <<>>,
                    Deleted |-> FALSE]

\* C6 witness: with enrichment disabled, the handler runs for a second event
C6_OmitLookupWitness ==
    /\ omitLookup
    /\ pc = "infn"
    /\ Len(fnLog) = 2
    /\ ev.InvolvedObject.ObjectReference = "Pod/default/web-2"

\* what entering onEvent with event e at clock value now does
ProcessedAs(e, now) ==
    /\ event' = e
    /\ received' = received + 1
    /\ eventAge' = now - timestamp'
    /\ pc' = IF eventAge' > maxEventAgeSeconds THEN "return" ELSE "inc"

\* C7: an add and an update are processed alike, the update with its new
\* object; a delete changes nothing: no counter, no cache call, no handler.
C7_AddUpdateAlikeDeleteIgnored ==
    [][/\ \A obj \in Events, now \in Clock :
            (\E isInInitialList \in BOOLEAN : OnAdd(obj, isInInitialList, now))
                => ProcessedAs(obj, now)
       /\ \A newObj \in Events, now \in Clock :
            (\E oldObj \in Events : OnUpdate(oldObj, newObj, now))
                => ProcessedAs(newObj, now)
       /\ \A obj \in Events : OnDelete(obj) => UNCHANGED vars
       /\ (pc = "idle" /\ pc' # "idle") => callback' \in {"OnAdd", "OnUpdate"}]_vars

\* C7 witness: an update is being processed with its new object, after an
\* earlier notification
C7_UpdateWitness ==
    /\ callback = "OnUpdate"
    /\ pc = "inc"
    /\ received = 2
    /\ event.InvolvedObject = "Pod/default/web-2"

\* C8: the handler runs inside the callback: while a handler call has not
\* returned the callback goroutine is inside it, so no other notification is
\* being processed, and the handler calls follow the delivery order.
C8_HandlerSynchronousInOrder ==
    /\ [](/\ fnRunning \in {0, 1}
          /\ (fnRunning = 1) <=> (pc = "infn")
          /\ InOrder(fnLog)
          /\ pc = "infn" => fnLog[Len(fnLog)] = received)
    /\ [][received' # received => (fnRunning = 0 /\ fnRunning' = 0)]_vars

\* C8 witness: the second handler call is in progress, the first has returned
C8_SecondHandlerWitness ==
    /\ pc = "infn"
    /\ fnLog = <<1, 2>>
    /\ fnRunning = 1

\* C9: Start returns with the consumption task merely spawned; a Stop called
\* after Start returns only when that task has returned, after which nothing
\* is processed; and Stop eventually returns.
C9_StopWaitsForConsumption ==
    /\ []((stop = "returned" /\ stopAfterStart) =>
              (run = "returned" /\ pc = "idle" /\ fnRunning = 0))
    /\ [][/\ (~started /\ started') => (run' = "spawned" /\ wg' = wg + 1)
          /\ (stop = "returned" /\ stopAfterStart) =>
                 /\ pc' = "idle"
                 /\ UNCHANGED <<received, fnLog, metricsStore, warnings,
                                objectMetadataCache>>]_vars
    /\ (stop = "waiting") ~> (stop = "returned")

\* C9 witness: Stop, called after Start, has returned after an event was handled
C9_StoppedWitness ==
    /\ stop = "returned"
    /\ stopAfterStart
    /\ run = "returned"
    /\ Len(fnLog) >= 1

\* C10: a watch error increments the watch-error counter by one and changes
\* nothing else: the watcher keeps running, the stop channel stays open, and
\* the other counters and the callback in progress are untouched.
C10_WatchErrorOnlyCounts ==
    [][metricsStore'.WatchErrors # metricsStore.WatchErrors =>
           /\ metricsStore' = [metricsStore EXCEPT !.WatchErrors = @ + 1]
           /\ UNCHANGED <<config, others, history, startUpTime, warnings, objectMetadataCache,
                          lifecycle, pc, locals, received, handler>>]_vars

\* C10 witness: after a watch error the watcher runs and handles an event
C10_WatchErrorWitness ==
    /\ metricsStore.WatchErrors = 1
    /\ run = "running"
    /\ stopper = "open"
    /\ pc = "infn"
    /\ metricsStore.EventsProcessed = 1

\* ------------------------------------------------------------------ routing properties
\* every node of a route tree
RECURSIVE RouteNodes(_)
RouteNodes(route) ==
    {route} \cup UNION { RouteNodes(route.routes[i]) : i \in DOMAIN route.routes }

\* path p leads to the node at path q or to a node below it
Below(q, p) == Len(q) <= Len(p) /\ SubSeq(p, 1, Len(q)) = q

\* destinations SendEvent was or will be called for in this traversal
Called == { todo[i] : i \in DOMAIN todo } \cup pendingSends \cup sendOk \cup sendFailed

\* destinations SendEvent has been called for
Handed == pendingSends \cup sendOk \cup sendFailed

\* C11: when a drop rule of a route node matches the event, SendEvent is
\* called for no destination of that node or of any node below it, even
\* where the match rules of a node below it are satisfied.
C11_DropPrunesSubtree ==
    rpc # "ready" =>
        \A n \in RouteNodes(routeCfg) :
            Dropped(n, routed) =>
                \A name \in Called : ~Below(n.receiver, name)

\* C11 witness: the traversal is over, the root's destination was sent the
\* event, and the first child was dropped although it and its own child
\* match the event
C11_DroppedChildWitness ==
    /\ rpc = "done"
    /\ <<>> \in sendOk
    /\ Len(routeCfg.routes) >= 1
    /\ Dropped(routeCfg.routes[1], routed)
    /\ Matched(routeCfg.routes[1], routed)
    /\ routeCfg.routes[1].match # {}
    /\ Len(routeCfg.routes[1].routes) = 1
    /\ ~Dropped(routeCfg.routes[1].routes[1], routed)
    /\ Matched(routeCfg.routes[1].routes[1], routed)
    /\ Handed = {<<>>}

\* C12: when two sibling routes both match, SendEvent is called for the
\* destinations of both; a Send that fails adds one to the send-error
\* counter, leaves the traversal where it is and leaves every other
\* destination's send as it was.
C12_SiblingsBothSentFailureIsolated ==
    /\ [](rpc = "done" =>
            \A n \in RouteNodes(routeCfg) :
                n.receiver \in Handed =>
                    \A i \in DOMAIN n.routes :
                        (~Dropped(n.routes[i], routed) /\ Matched(n.routes[i], routed))
                            => n.routes[i].receiver \in Handed)
    /\ [][sendFailed' # sendFailed =>
            /\ metricsStore' = Inc(metricsStore, "SendErrors")
            /\ <<rpc, todo, routed, sendOk>>' = <<rpc, todo, routed, sendOk>>
            /\ \E name \in pendingSends :
                  /\ sendFailed' = sendFailed \cup {name}
                  /\ pendingSends' = pendingSends \ {name}]_vars

\* C12 witness: both children of the root matched; the send to the first
\* failed and was counted, the send to the second succeeded afterwards
C12_FailedAndSentWitness ==
    /\ rpc = "done"
    /\ Len(routeCfg.routes) >= 2
    /\ routeCfg.routes[1].match # {}
    /\ routeCfg.routes[2].match # {}
    /\ <<1>> \in sendFailed
    /\ <<2>> \in sendOk
    /\ metricsStore.SendErrors = 1

\* ------------------------------------------------------------------ cache properties
\* the callback goroutine takes the step through GetObjectMetadata
LookupStep == pc = "enrich" /\ pc' = "callfn" /\ ~omitLookup

\* this lookup is for the object the previous lookup was for
SameAsLastLookup == lastLookup.reference = event.InvolvedObject

\* the step is a cache hit: counted as one, and no read request is made
CacheHitStep ==
    /\ metricsStore'.KubeApiReadCacheHits = metricsStore.KubeApiReadCacheHits + 1
    /\ metricsStore'.KubeApiReadRequests = metricsStore.KubeApiReadRequests

C15_EnrichmentIdempotent ==
    [][(/\ LookupStep
        /\ SameAsLastLookup
        /\ CacheIndex(objectMetadataCache, event.InvolvedObject) # 0)
          => ev'.InvolvedObject = lastLookup.involved]_vars

\* ------------------------------------------------------------------ sink properties
\* C16: Teams.Send returns an error for every attempt that did not deliver
\* the event (the layout could not be serialized, the request could not be
\* built or sent, the body could not be read, the status is not 200, the
\* body holds the rate-limit marker) and nil only for a 200 without marker.
C16_TeamsErrorIffNotDelivered ==
    teamsRet # "none" => (teamsRet = "nil" <=> TeamsDelivered(teamsIn))

\* C17: once Loki.Close has returned, no connection that an earlier
\* Loki.Send opened is still held idle.
C17_CloseReleasesSendConnections ==
    lokiClosed => \A tr \in Transports : idleConns[tr] = 0

\* ------------------------------------------------------------------ counters and frame
\* C18: while no notification is being processed the processed counter
\* equals the number of handler invocations; during processing it exceeds
\* the number of started invocations by at most one; processed plus
\* discarded never exceeds the add and update notifications received; and
\* no counter ever decreases.
C18_CountersFollowThePipeline ==
    /\ [](/\ pc = "idle" => metricsStore.EventsProcessed = Len(fnLog)
          /\ Len(fnLog) <= metricsStore.EventsProcessed
          /\ metricsStore.EventsProcessed <= Len(fnLog) + 1
          /\ metricsStore.EventsProcessed + metricsStore.EventsDiscarded <= received)
    /\ [][\A f \in DOMAIN metricsStore : metricsStore'[f] >= metricsStore[f]]_vars

\* C18 witness: two notifications have been dealt with, one discarded and
\* counted, one processed and handled, and the callback is back
C18_OneEachWitness ==
    /\ pc = "idle"
    /\ received = 2
    /\ metricsStore.EventsProcessed = 1
    /\ metricsStore.EventsDiscarded = 1
    /\ Len(fnLog) = 1
    /\ fnRunning = 0

\* C19: from its delivery until onEvent returns, the event object of the
\* stream is not modified: the managed fields are cleared on the copy held
\* by the EnhancedEvent only, the reference handed to the handler is a copy
\* equal to the original's, and this on the enriched, the error and the
\* omit-lookup path alike, whatever the handler writes.
C19_StreamEventUntouched ==
    /\ [][(pc # "idle" /\ pc' # "idle") => event' = event]_vars
    /\ [](pc \in {"enrich", "callfn", "infn"} =>
            /\ event \in Events
            /\ ev.Event.ManagedFields \in {<<>>, HandlerFields}
            /\ [ev.Event EXCEPT !.ManagedFields = event.ManagedFields] = event)
    /\ [](pc \in {"callfn", "infn"} =>
            ev.InvolvedObject.ObjectReference = event.InvolvedObject)

\* C19 witness: the handler has written to the managed fields and the
\* labels of the EnhancedEvent of an enriched event, and the event of the
\* stream still has the managed fields it came with
C19_WrittenCopyWitness ==
    /\ pc = "infn"
    /\ ~omitLookup
    /\ err = "nil"
    /\ event.ManagedFields = <<"kubectl">>
    /\ ev.Event.ManagedFields = HandlerFields
    /\ ev.InvolvedObject.Labels = HandlerLabels

====
